---- MODULE Spec2Model ----
(***************************************************************************)
(* Capture (spyerin2017): the capture state machine of CaptureStage.tsx,   *)
(* the application shell of App.tsx that owns the frame collection, and    *)
(* the stitching effect of StitchEditor.tsx.                               *)
(*                                                                         *)
(* React function components are modelled by their state cells.  A handler *)
(* created by a render reads the state cells as they were at that render   *)
(* (its closure); a handler that runs later than the render that created   *)
(* it carries its closure as a record.  State setters (setX) always write  *)
(* the live cell of their own component instance and do nothing once that  *)
(* instance is unmounted.                                                  *)
(*                                                                         *)
(* Time is counted in units of one second: the 2000 ms sampling period is  *)
(* 2 units, and the 200 ms delay of the Single-mode finish is shorter than *)
(* one unit, so a pending delayed finish runs before the clock advances.   *)
(***************************************************************************)
EXTENDS Integers, Sequences, FiniteSets, TLC

\* ------------------------------------------------------------------ bounds
MaxFrames == 3        \* frames one capture session may hold
MaxPending == 2       \* delayed Single-mode finishes in flight
MaxIntervals == 2     \* setInterval handles created
MaxStitch == 2        \* frames of a collection handed to the editor
MaxRenders == 3       \* runs of the editor's render effect
MaxEdit == 3          \* frames of a collection the list operations are applied to
MaxCalls == 2         \* analyzeScreenshot calls in flight
AgeCap == 6           \* the interval age (ghost) stops counting here
NotifyCap == 3        \* callbacks recorded per session (ghost)
\* the capture sessions followed (one CaptureStage instance, from its mount)
Sessions == {1}

\* ------------------------------------------------------- program constants
SINGLE == "SINGLE"
LONG_MANUAL == "LONG_MANUAL"
LONG_TIMER == "LONG_TIMER"
CaptureMode == {SINGLE, LONG_MANUAL, LONG_TIMER}

IDLE == "IDLE"
CAPTURING == "CAPTURING"
STITCHING == "STITCHING"
ANALYZING == "ANALYZING"
AppState == {IDLE, CAPTURING, STITCHING, ANALYZING}

\* a sampling period of 3000 ms
PeriodSlow == 2 + 1
\* the setInterval period, 2000 ms, in time units
Period == 2

\* values generateId can return (Math.random: any of them, repeats included)
FrameIds == {1, 2}
\* what video.videoWidth / videoHeight can report at a capture: <<0, 0>> when
\* the element has no current frame, else the native size of the source
VideoSizes == {<<0, 0>>, <<1, 1>>}

\* CapturedFrame (dataUrl is determined by id and size; timestamp is never read)
Frame(id, w, h) == [id |-> id, width |-> w, height |-> h]

VARIABLES
    \* App.tsx
    appState,        \* AppState
    frames,          \* App's frames: the collection handed over and edited
    \* CaptureStage.tsx, the instance of session `session`
    session,         \* number of capture sessions started (0: none yet)
    stream,          \* TRUE iff the stream state cell is non-null
    mode,            \* CaptureMode
    stageFrames,     \* CaptureStage's frames state cell
    isRecording,     \* BOOLEAN
    timerInterval,   \* state cell: last interval id stored, 0 for null
    effectCleanup,   \* id the timer effect's pending cleanup will clear, 0: none
    \* browser
    tracks,          \* per session: the video track of its MediaStream
    intervals,       \* live setInterval timers: [id, left, age, base]
    nextIntervalId,  \* next handle setInterval returns
    pendingFinish,   \* queue of setTimeout(() => handleFinish(), 200) closures
    \* observation of the callbacks (ghost)
    notified,        \* per session: the onCaptureFrames / onCancel calls made
    \* StitchEditor.tsx
    stitchedImage,   \* state cell: NoImage for null, else the encoded raster
    canvas,          \* the one <canvas> of canvasRef: [width, height, px]
    passes,          \* render passes with image loads outstanding
    renders,         \* runs of the render effect so far (ghost)
    published,       \* which pass set stitchedImage last (ghost)
    \* App.tsx, the analysis
    analysis,        \* state cell: NoAnalysis for null, else the AnalysisResult
    isAnalyzing,     \* BOOLEAN
    calls,           \* analyzeScreenshot calls awaited by a handleAnalyze
    alerted,         \* alert("Analysis failed. Please try again.") was shown
    resolved         \* a call of analyzeScreenshot has returned a result (ghost)

capVars == <<appState, frames, session, stream, mode, stageFrames, isRecording,
             timerInterval, effectCleanup, tracks, intervals, nextIntervalId,
             pendingFinish, notified>>

stageCells == <<stream, mode, stageFrames, isRecording, timerInterval, effectCleanup>>

stitchVars == <<stitchedImage, canvas, passes, renders, published>>

analysisVars == <<analysis, isAnalyzing, calls, alerted, resolved>>

vars == <<capVars, stitchVars, analysisVars>>

\* useState<AnalysisResult | null>(null)
NoAnalysis == [null |-> TRUE]
\* what analyzeScreenshot returns: an AnalysisResult
Result == [summary |-> "summary"]

\* the analysis cells after construction
AnalysisInit ==
    /\ analysis = NoAnalysis
    /\ isAnalyzing = FALSE
    /\ calls = 0
    /\ alerted = FALSE
    /\ resolved = FALSE

\* the record of a session's callbacks, the first NotifyCap of them
Notify(log, what) == IF Len(log) < NotifyCap THEN Append(log, what) ELSE log

\* the CaptureStage instance of the current session is mounted
Mounted == appState = CAPTURING
\* videoRef.current is non-null: the <video> is rendered only past line 113
VideoRef == Mounted /\ stream

\* ------------------------------------------------------------ browser timers
\* a clearInterval that cancels nothing
ClearIntervalNone(ivs, id) == ivs
\* window.clearInterval(id)
ClearInterval(ivs, id) == {iv \in ivs : iv.id # id}

\* window.setInterval(cb, 2000) returning handle id; left counts down to the
\* next call of cb.  Ghost fields: age, the time since the call, and base, the
\* number of frames the session held at the call
SetInterval(ivs, id) ==
    ivs \cup {[id |-> id, left |-> Period, age |-> 0, base |-> Len(stageFrames)]}

\* ------------------------------------------------------------- CaptureStage
\* stopStream as seen by a closure cl = [sess, stream, timerInterval]:
\* the tracks after it ...
StopTracks(cl) ==
    IF cl.stream
    THEN [tracks EXCEPT ![cl.sess] = IF @ = "live" THEN "stopped" ELSE @]
    ELSE tracks
\* ... the stream state cell after it (setStream(null) on the live instance) ...
StopStreamCell(cl) ==
    IF cl.stream /\ cl.sess = session /\ Mounted THEN FALSE ELSE stream
\* ... and the timers after it
StopIntervals(cl) ==
    IF cl.timerInterval # 0 THEN ClearInterval(intervals, cl.timerInterval) ELSE intervals

\* the closure of the handlers of the current render
Now == [sess |-> session, stream |-> stream, timerInterval |-> timerInterval,
        frames |-> stageFrames]
\* the closure of the first render of session s (stream and timerInterval null)
First(s) == [sess |-> s, stream |-> FALSE, timerInterval |-> 0, frames |-> <<>>]

\* captureFrame run from closure cl: the values stageFrames may have afterwards
CaptureFrame(cl) ==
    IF ~(VideoRef /\ cl.sess = session) \/ ~cl.stream
    THEN {stageFrames}
    ELSE {Append(stageFrames, Frame(id, sz[1], sz[2])) : id \in FrameIds, sz \in VideoSizes}

\* unmounting CaptureStage runs the timer effect's cleanup (line 101); the
\* stream effect's cleanup (lines 51-53) is empty
Unmount(ivs) == IF effectCleanup # 0 THEN ClearInterval(ivs, effectCleanup) ELSE ivs

\* the state cells of an instance are gone once it is unmounted: they read
\* as the initial values of lines 16-20 until the next mount
StageGone ==
    /\ stream' = FALSE
    /\ mode' = SINGLE
    /\ stageFrames' = <<>>
    /\ isRecording' = FALSE
    /\ timerInterval' = 0
    /\ effectCleanup' = 0

\* the application leaves (or was not in) the capture view; ivs are the
\* timers the handler leaves behind
LeaveCapture(ivs) ==
    IF Mounted
    THEN StageGone /\ intervals' = Unmount(ivs)
    ELSE UNCHANGED stageCells /\ intervals' = ivs

\* the timer effect after a render in which mode or isRecording changed
TimerEffect(m, rec) ==
    LET cleaned == IF effectCleanup # 0 THEN ClearInterval(intervals, effectCleanup)
                   ELSE intervals
    IN IF m = LONG_TIMER /\ rec
       THEN /\ nextIntervalId <= MaxIntervals
            /\ intervals' = SetInterval(cleaned, nextIntervalId)
            /\ timerInterval' = nextIntervalId
            /\ effectCleanup' = nextIntervalId
            /\ nextIntervalId' = nextIntervalId + 1
       ELSE /\ intervals' = IF timerInterval # 0 THEN ClearInterval(cleaned, timerInterval)
                            ELSE cleaned
            /\ effectCleanup' = 0
            /\ UNCHANGED <<timerInterval, nextIntervalId>>

\* onCaptureFrames = App.handleCaptureComplete
HandleCaptureComplete(fs) ==
    /\ frames' = fs
    /\ appState' = STITCHING

\* handleFinish run from closure cl, by session cl.sess: stopStream(), then
\* onCaptureFrames(frames), which takes the application out of the capture view
HandleFinish(cl) ==
    /\ tracks' = StopTracks(cl)
    /\ HandleCaptureComplete(cl.frames)
    /\ LeaveCapture(StopIntervals(cl))
    /\ notified' = [notified EXCEPT ![cl.sess] = Notify(@, "finish")]

\* ------------------------------------------------------------------ actions
\* App.handleStartCapture ("Start Capture", "Discard All"), then the mount of
\* CaptureStage and the call of startCapture
StartCapture ==
    /\ UNCHANGED <<stitchVars, isAnalyzing, calls, alerted, resolved>>
    /\ analysis' = NoAnalysis
    /\ appState \in {IDLE, STITCHING}
    /\ session + 1 \in Sessions
    /\ frames' = <<>>
    /\ appState' = CAPTURING
    /\ session' = session + 1
    /\ stream' = FALSE
    /\ mode' = SINGLE
    /\ stageFrames' = <<>>
    /\ isRecording' = FALSE
    /\ timerInterval' = 0
    /\ effectCleanup' = 0
    /\ tracks' = [tracks EXCEPT ![session + 1] = "pending"]
    /\ UNCHANGED <<intervals, nextIntervalId, pendingFinish, notified>>

\* getDisplayMedia resolves for session s: setStream(mediaStream), onended set
AcquireGranted(s) ==
    /\ UNCHANGED <<stitchVars, analysisVars>>
    /\ tracks[s] = "pending"
    /\ tracks' = [tracks EXCEPT ![s] = "live"]
    /\ stream' = IF s = session /\ Mounted THEN TRUE ELSE stream
    /\ UNCHANGED <<appState, frames, session, mode, stageFrames, isRecording,
                   timerInterval, effectCleanup, intervals, nextIntervalId,
                   pendingFinish, notified>>

\* a rejection that is swallowed: the catch block without onCancel()
AcquireDeniedSilent(s) ==
    /\ UNCHANGED <<stitchVars, analysisVars>>
    /\ tracks[s] = "pending"
    /\ tracks' = [tracks EXCEPT ![s] = "denied"]
    /\ UNCHANGED <<appState, frames, session, stageCells, intervals,
                   nextIntervalId, pendingFinish, notified>>

\* getDisplayMedia rejects for session s: onCancel()
AcquireDenied(s) ==
    /\ UNCHANGED <<stitchVars, analysisVars>>
    /\ tracks[s] = "pending"
    /\ tracks' = [tracks EXCEPT ![s] = "denied"]
    /\ appState' = IDLE
    /\ LeaveCapture(intervals)
    /\ notified' = [notified EXCEPT ![s] = Notify(@, "cancel")]
    /\ UNCHANGED <<frames, session, nextIntervalId, pendingFinish>>

\* the source ends outside the session: onended runs stopStream of the first
\* render's closure
TrackEnded(s) ==
    /\ UNCHANGED <<stitchVars, analysisVars>>
    /\ tracks[s] = "live"
    /\ LET ended == [tracks EXCEPT ![s] = "ended"]
           cl == First(s)
       IN /\ tracks' = IF cl.stream
                       THEN [ended EXCEPT ![s] = IF @ = "live" THEN "stopped" ELSE @]
                       ELSE ended
          /\ stream' = StopStreamCell(cl)
          /\ intervals' = StopIntervals(cl)
    /\ UNCHANGED <<appState, frames, session, mode, stageFrames, isRecording,
                   timerInterval, effectCleanup, nextIntervalId, pendingFinish,
                   notified>>

\* the mode buttons: setMode(m), then the timer effect
SetMode(m) ==
    /\ UNCHANGED <<stitchVars, analysisVars>>
    /\ VideoRef
    /\ m # mode
    /\ mode' = m
    /\ TimerEffect(m, isRecording)
    /\ UNCHANGED <<appState, frames, session, stream, stageFrames, isRecording,
                   tracks, pendingFinish, notified>>

\* "Start Timer" / "Pause Timer": setIsRecording(b), then the timer effect
SetIsRecording(b) ==
    /\ UNCHANGED <<stitchVars, analysisVars>>
    /\ VideoRef
    /\ mode = LONG_TIMER
    /\ isRecording = ~b
    /\ isRecording' = b
    /\ TimerEffect(mode, b)
    /\ UNCHANGED <<appState, frames, session, stream, mode, stageFrames,
                   tracks, pendingFinish, notified>>

\* "Snap Frame"
SnapFrame ==
    /\ UNCHANGED <<stitchVars, analysisVars>>
    /\ VideoRef
    /\ mode = LONG_MANUAL
    /\ Len(stageFrames) < MaxFrames
    /\ stageFrames' \in CaptureFrame(Now)
    /\ UNCHANGED <<appState, frames, session, stream, mode, isRecording,
                   timerInterval, effectCleanup, tracks, intervals,
                   nextIntervalId, pendingFinish, notified>>

\* "Capture & Edit": captureFrame(); setTimeout(() => handleFinish(), 200)
CaptureAndEdit ==
    /\ UNCHANGED <<stitchVars, analysisVars>>
    /\ VideoRef
    /\ mode = SINGLE
    /\ Len(stageFrames) < MaxFrames
    /\ Len(pendingFinish) < MaxPending
    /\ stageFrames' \in CaptureFrame(Now)
    /\ pendingFinish' = Append(pendingFinish, Now)
    /\ UNCHANGED <<appState, frames, session, stream, mode, isRecording,
                   timerInterval, effectCleanup, tracks, intervals,
                   nextIntervalId, notified>>

\* the delayed handleFinish of the oldest "Capture & Edit" click runs
FinishTimeout ==
    /\ UNCHANGED <<stitchVars, analysisVars>>
    /\ pendingFinish # <<>>
    /\ HandleFinish(Head(pendingFinish))
    /\ pendingFinish' = Tail(pendingFinish)
    /\ UNCHANGED <<session, nextIntervalId>>

\* a "Finish Stitching" button that is never disabled
FinishStitchingAlways ==
    /\ UNCHANGED <<stitchVars, analysisVars>>
    /\ VideoRef
    /\ mode \in {LONG_MANUAL, LONG_TIMER}
    /\ HandleFinish(Now)
    /\ UNCHANGED <<session, nextIntervalId, pendingFinish>>

\* "Finish Stitching" (disabled while the collection is empty)
FinishStitching ==
    /\ UNCHANGED <<stitchVars, analysisVars>>
    /\ VideoRef
    /\ mode \in {LONG_MANUAL, LONG_TIMER}
    /\ Len(stageFrames) # 0
    /\ HandleFinish(Now)
    /\ UNCHANGED <<session, nextIntervalId, pendingFinish>>

\* the X button: stopStream(); onCancel()
Cancel ==
    /\ UNCHANGED <<stitchVars, analysisVars>>
    /\ VideoRef
    /\ tracks' = StopTracks(Now)
    /\ appState' = IDLE
    /\ LeaveCapture(StopIntervals(Now))
    /\ notified' = [notified EXCEPT ![session] = Notify(@, "cancel")]
    /\ UNCHANGED <<frames, session, nextIntervalId, pendingFinish>>

\* "Back to Home": setAppState(IDLE)
BackToHome ==
    /\ UNCHANGED <<stitchVars, analysisVars>>
    /\ appState # IDLE
    /\ appState' = IDLE
    /\ LeaveCapture(intervals)
    /\ UNCHANGED <<frames, session, tracks, nextIntervalId, pendingFinish, notified>>

\* an interval fires: captureFrame of the render that started it
TimerTick ==
    \E iv \in intervals :
        /\ UNCHANGED <<stitchVars, analysisVars>>
        /\ iv.left = 0
        /\ Len(stageFrames) < MaxFrames
        /\ stageFrames' \in CaptureFrame([Now EXCEPT !.stream = TRUE])
        /\ intervals' = (intervals \ {iv}) \cup {[iv EXCEPT !.left = Period]}
        /\ UNCHANGED <<appState, frames, session, stream, mode, isRecording,
                       timerInterval, effectCleanup, tracks, nextIntervalId,
                       pendingFinish, notified>>

\* one time unit passes: no timer is due, no delayed finish is outstanding
Advance ==
    /\ UNCHANGED <<stitchVars, analysisVars>>
    /\ intervals # {}
    /\ pendingFinish = <<>>
    /\ \A iv \in intervals : iv.left > 0
    /\ intervals' = {[iv EXCEPT !.left = @ - 1,
                                !.age = IF @ < AgeCap THEN @ + 1 ELSE @] : iv \in intervals}
    /\ UNCHANGED <<appState, frames, session, stream, mode, stageFrames,
                   isRecording, timerInterval, effectCleanup, tracks,
                   nextIntervalId, pendingFinish, notified>>

\* ------------------------------------------------------------- StitchEditor
\* sizes of the frames of a collection under edit; a 0 x 0 frame carries the
\* data URL of an empty canvas, which no Image can decode
StitchSizes == {<<0, 0>>, <<1, 2>>, <<2, 1>>}

\* the collections the editor may be mounted with: frame i has id i
Collections ==
    UNION {{[i \in 1..n |-> Frame(i, sz[i][1], sz[i][2])] : sz \in [1..n -> StitchSizes]}
           : n \in 0..MaxStitch}

NoImage == [null |-> TRUE]
Black == <<0, 0, 0>>

Max(a, b) == IF a >= b THEN a ELSE b

\* the width of the first frame taken as the reference width
MaxWidthFirst(fs) == fs[1].width
\* Math.max(...frames.map(f => f.width))
RECURSIVE MaxWidth(_)
MaxWidth(fs) == IF Len(fs) = 1 THEN fs[1].width ELSE Max(fs[1].width, MaxWidth(Tail(fs)))

\* frames.reduce((acc, f) => acc + f.height, 0)
RECURSIVE TotalHeight(_)
TotalHeight(fs) == IF fs = <<>> THEN 0 ELSE fs[1].height + TotalHeight(Tail(fs))

\* A raster is [width, height, px]; px maps <<row, col>> to Black or to
\* <<id, r, c>>, the pixel (r, c) of the image of frame id.  Columns are
\* counted in half pixels, so that x = (maxWidth - frame.width) / 2 is the
\* whole number maxWidth - frame.width of half-pixel columns.
\* canvas.width = w; canvas.height = h; fillRect(0, 0, w, h) in '#000'
Cleared(w, h) ==
    [width |-> w, height |-> h,
     px |-> [p \in (0..(h - 1)) \X (0..(2 * w - 1)) |-> Black]]

\* x = maxWidth - frame.width, the division by 2 left out: right-aligned
OffsetXDoubled(maxWidth, f) == 2 * (maxWidth - f.width)
\* x = (maxWidth - frame.width) / 2, in half-pixel columns
OffsetX(maxWidth, f) == maxWidth - f.width

\* ctx.drawImage(img, x, y) of the decoded image of frame f, clipped to cv
DrawImage(cv, f, x, y) ==
    [cv EXCEPT !.px =
        [p \in DOMAIN cv.px |->
            IF /\ p[1] >= y /\ p[1] < y + f.height
               /\ p[2] >= x /\ p[2] < x + 2 * f.width
            THEN <<f.id, p[1] - y, p[2] - x>>
            ELSE cv.px[p]]]

\* canvas.toDataURL('image/png'): the encoded raster of cv as it is now
ToDataURL(cv) == [width |-> cv.width, height |-> cv.height, px |-> cv.px]

\* an Image of frame f fires onload only if its data URL decodes
Decodes(f) == f.width > 0 /\ f.height > 0

\* the render pass the effect starts over fs: the forEach images all
\* outstanding (forEach), the awaited loop (drawImages) waiting on its first
NewPass(g, fs) ==
    [gen |-> g, frames |-> fs, forEach |-> 1..Len(fs), currentY |-> 0,
     next |-> 1, yOffset |-> 0]

\* a pass is over when none of its images can still fire onload
Over(p) == p.forEach = {} /\ p.next > Len(p.frames)

\* the useEffect([frames]) body, run with the collection fs
RenderEffect(fs) ==
    /\ renders' = renders + 1
    /\ IF Len(fs) = 0
       THEN /\ stitchedImage' = NoImage
            /\ published' = [gen |-> renders + 1, frames |-> fs]
            /\ UNCHANGED <<canvas, passes>>
       ELSE /\ canvas' = Cleared(MaxWidth(fs), TotalHeight(fs))
            /\ passes' = passes \cup {NewPass(renders + 1, fs)}
            /\ UNCHANGED <<stitchedImage, published>>

\* a filter with the test inverted: prev.filter(f => f.id === id)
FilterMatching(fs, id) == SelectSeq(fs, LAMBDA f : f.id = id)
\* prev.filter(f => f.id !== id)
RECURSIVE Filter(_, _)
Filter(fs, id) ==
    IF fs = <<>> THEN <<>>
    ELSE IF fs[1].id # id THEN <<fs[1]>> \o Filter(Tail(fs), id)
    ELSE Filter(Tail(fs), id)

\* prev.findIndex(f => f.id === id), 1-based, 0 for -1
FindIndex(fs, id) ==
    IF \E i \in 1..Len(fs) : fs[i].id = id
    THEN CHOOSE i \in 1..Len(fs) :
            fs[i].id = id /\ \A j \in 1..(i - 1) : fs[j].id # id
    ELSE 0

\* an updater that ignores the direction: swapIdx = idx + 1
ReorderedDown(fs, id, direction) ==
    LET idx == FindIndex(fs, id)
        swapIdx == idx + 1
    IN IF idx = 0 THEN fs
       ELSE IF swapIdx >= 1 /\ swapIdx <= Len(fs)
            THEN [fs EXCEPT ![idx] = fs[swapIdx], ![swapIdx] = fs[idx]]
            ELSE fs

\* the updater of handleReorderFrame
Reordered(fs, id, direction) ==
    LET idx == FindIndex(fs, id)
        swapIdx == IF direction = "up" THEN idx - 1 ELSE idx + 1
    IN IF idx = 0 THEN fs
       ELSE IF swapIdx >= 1 /\ swapIdx <= Len(fs)
            THEN [fs EXCEPT ![idx] = fs[swapIdx], ![swapIdx] = fs[idx]]
            ELSE fs

\* the trash button of a listed frame: handleDeleteFrame, then the effect
DeleteFrame(id) ==
    /\ appState = STITCHING
    /\ renders < MaxRenders
    /\ \E i \in 1..Len(frames) : frames[i].id = id
    /\ frames' = Filter(frames, id)
    /\ RenderEffect(frames')
    /\ UNCHANGED <<appState, session, stageCells, tracks, intervals,
                   nextIntervalId, pendingFinish, notified, analysisVars>>

\* an arrow button of a listed frame (up is disabled on the first, down on
\* the last): handleReorderFrame, then the effect
ReorderFrame(id, direction) ==
    /\ appState = STITCHING
    /\ renders < MaxRenders
    /\ \E i \in 1..Len(frames) :
          /\ frames[i].id = id
          /\ IF direction = "up" THEN i # 1 ELSE i # Len(frames)
    /\ frames' = Reordered(frames, id, direction)
    /\ RenderEffect(frames')
    /\ UNCHANGED <<appState, session, stageCells, tracks, intervals,
                   nextIntervalId, pendingFinish, notified, analysisVars>>

\* onload of the forEach image of frame i of pass p (lines 54-67)
ForEachOnload(p, i) ==
    /\ i \in p.forEach
    /\ Decodes(p.frames[i])
    /\ LET f == p.frames[i]
           q == [p EXCEPT !.forEach = @ \ {i}, !.currentY = @ + f.height]
       IN /\ canvas' = DrawImage(canvas, f, OffsetX(MaxWidth(p.frames), f), p.currentY)
          /\ passes' = (passes \ {p}) \cup (IF Over(q) THEN {} ELSE {q})
    /\ UNCHANGED <<capVars, stitchedImage, renders, published, analysisVars>>

\* a loop that also resolves on a failed decode: the frame is skipped
DrawImagesOnloadOrError(p) ==
    /\ p.next <= Len(p.frames)
    /\ LET f == p.frames[p.next]
           q == [p EXCEPT !.next = @ + 1,
                          !.yOffset = IF Decodes(f) THEN @ + f.height ELSE @]
           drawn == IF Decodes(f)
                    THEN DrawImage(canvas, f, OffsetX(MaxWidth(p.frames), f), p.yOffset)
                    ELSE canvas
       IN /\ canvas' = drawn
          /\ passes' = (passes \ {p}) \cup (IF Over(q) THEN {} ELSE {q})
          /\ IF q.next > Len(p.frames)
             THEN /\ stitchedImage' = ToDataURL(drawn)
                  /\ published' = [gen |-> p.gen, frames |-> p.frames]
             ELSE UNCHANGED <<stitchedImage, published>>
    /\ UNCHANGED <<capVars, renders, analysisVars>>

\* onload of the image drawImages of pass p awaits (lines 78-83); past the
\* last frame the loop ends and the composite is published (line 87)
DrawImagesOnload(p) ==
    /\ p.next <= Len(p.frames)
    /\ Decodes(p.frames[p.next])
    /\ LET f == p.frames[p.next]
           q == [p EXCEPT !.next = @ + 1, !.yOffset = @ + f.height]
           drawn == DrawImage(canvas, f, OffsetX(MaxWidth(p.frames), f), p.yOffset)
       IN /\ canvas' = drawn
          /\ passes' = (passes \ {p}) \cup (IF Over(q) THEN {} ELSE {q})
          /\ IF q.next > Len(p.frames)
             THEN /\ stitchedImage' = ToDataURL(drawn)
                  /\ published' = [gen |-> p.gen, frames |-> p.frames]
             ELSE UNCHANGED <<stitchedImage, published>>
    /\ UNCHANGED <<capVars, renders, analysisVars>>

\* the composite of fs: each frame drawn once, in order, on a cleared canvas
RECURSIVE Placed(_, _, _, _)
Placed(cv, fs, i, y) ==
    IF i > Len(fs) THEN cv
    ELSE Placed(DrawImage(cv, fs[i], OffsetX(MaxWidth(fs), fs[i]), y), fs, i + 1,
                y + fs[i].height)
Composite(fs) == ToDataURL(Placed(Cleared(MaxWidth(fs), TotalHeight(fs)), fs, 1, 0))

\* ------------------------------------------------------------ specification
\* the capture session: App and CaptureStage, from the IDLE screen
CaptureInit ==
    /\ appState = IDLE
    /\ frames = <<>>
    /\ session = 0
    /\ stream = FALSE
    /\ mode = SINGLE
    /\ stageFrames = <<>>
    /\ isRecording = FALSE
    /\ timerInterval = 0
    /\ effectCleanup = 0
    /\ tracks = [s \in Sessions |-> "none"]
    /\ intervals = {}
    /\ nextIntervalId = 1
    /\ pendingFinish = <<>>
    /\ notified = [s \in Sessions |-> <<>>]
    /\ AnalysisInit

Init ==
    /\ CaptureInit
    /\ stitchedImage = NoImage
    /\ canvas = Cleared(0, 0)
    /\ passes = {}
    /\ renders = 0
    /\ published = [gen |-> 0, frames |-> <<>>]

Next ==
    \/ StartCapture
    \/ \E s \in Sessions : AcquireGranted(s)
    \/ \E s \in Sessions : AcquireDenied(s)
    \/ \E s \in Sessions : TrackEnded(s)
    \/ \E m \in CaptureMode : SetMode(m)
    \/ \E b \in BOOLEAN : SetIsRecording(b)
    \/ SnapFrame
    \/ CaptureAndEdit
    \/ FinishTimeout
    \/ FinishStitching
    \/ Cancel
    \/ BackToHome
    \/ TimerTick
    \/ Advance

Spec == Init /\ [][Next]_vars

\* the editor: StitchEditor mounted over a collection, its first effect run
StitchInit ==
    /\ appState = STITCHING
    /\ frames \in Collections
    /\ session = 0
    /\ stream = FALSE
    /\ mode = SINGLE
    /\ stageFrames = <<>>
    /\ isRecording = FALSE
    /\ timerInterval = 0
    /\ effectCleanup = 0
    /\ tracks = [s \in Sessions |-> "none"]
    /\ intervals = {}
    /\ nextIntervalId = 1
    /\ pendingFinish = <<>>
    /\ notified = [s \in Sessions |-> <<>>]
    /\ AnalysisInit
    /\ stitchedImage = NoImage
    /\ renders = 1
    /\ IF Len(frames) = 0
       THEN /\ canvas = Cleared(0, 0)
            /\ passes = {}
       ELSE /\ canvas = Cleared(MaxWidth(frames), TotalHeight(frames))
            /\ passes = {NewPass(1, frames)}
    /\ published = [gen |-> IF Len(frames) = 0 THEN 1 ELSE 0, frames |-> <<>>]

StitchNext ==
    \/ \E id \in 1..MaxStitch : DeleteFrame(id)
    \/ \E id \in 1..MaxStitch, direction \in {"up", "down"} : ReorderFrame(id, direction)
    \/ \E p \in passes, i \in 1..MaxStitch : ForEachOnload(p, i)
    \/ \E p \in passes : DrawImagesOnload(p)

SpecStitch == StitchInit /\ [][StitchNext]_vars

\* one render pass: the editor mounted over a collection that is not mutated
\* afterwards.  Sizes are in units of 100 px of width and 50 px of height, so
\* that <<2, 2>> is a 200 x 100 frame and <<3, 3>> a 300 x 150 frame, and a
\* half-pixel column is 50 px wide
RenderSizes == StitchSizes \cup {<<2, 2>>, <<3, 3>>}

RenderCollections ==
    UNION {{[i \in 1..n |-> Frame(i, sz[i][1], sz[i][2])] : sz \in [1..n -> RenderSizes]}
           : n \in 0..MaxStitch}

RenderInit ==
    /\ appState = STITCHING
    /\ frames \in RenderCollections
    /\ session = 0
    /\ stream = FALSE
    /\ mode = SINGLE
    /\ stageFrames = <<>>
    /\ isRecording = FALSE
    /\ timerInterval = 0
    /\ effectCleanup = 0
    /\ tracks = [s \in Sessions |-> "none"]
    /\ intervals = {}
    /\ nextIntervalId = 1
    /\ pendingFinish = <<>>
    /\ notified = [s \in Sessions |-> <<>>]
    /\ AnalysisInit
    /\ stitchedImage = NoImage
    /\ renders = 1
    /\ IF Len(frames) = 0
       THEN /\ canvas = Cleared(0, 0)
            /\ passes = {}
       ELSE /\ canvas = Cleared(MaxWidth(frames), TotalHeight(frames))
            /\ passes = {NewPass(1, frames)}
    /\ published = [gen |-> IF Len(frames) = 0 THEN 1 ELSE 0, frames |-> <<>>]

RenderNext ==
    \/ \E p \in passes, i \in 1..MaxStitch : ForEachOnload(p, i)
    \/ \E p \in passes : DrawImagesOnload(p)

SpecRender == RenderInit /\ [][RenderNext]_vars

\* ------------------------------------------------------------------ analysis
\* "Analyze with AI" (enabled once a composite is published): handleAnalyze
\* up to its await of analyzeScreenshot(imageDataUrl)
Analyze ==
    /\ appState = STITCHING
    /\ stitchedImage # NoImage
    /\ calls < MaxCalls
    /\ isAnalyzing' = TRUE
    /\ analysis' = NoAnalysis
    /\ calls' = calls + 1
    /\ UNCHANGED <<capVars, stitchVars, alerted, resolved>>

\* analyzeScreenshot returns: setAnalysis(result), finally setIsAnalyzing(false)
AnalyzeResolved ==
    /\ calls > 0
    /\ analysis' = Result
    /\ isAnalyzing' = FALSE
    /\ calls' = calls - 1
    /\ resolved' = TRUE
    /\ UNCHANGED <<capVars, stitchVars, alerted>>

\* a failure handled as a reset of the application
AnalyzeFailedReset ==
    /\ calls > 0
    /\ alerted' = TRUE
    /\ isAnalyzing' = FALSE
    /\ calls' = calls - 1
    /\ frames' = <<>>
    /\ appState' = IDLE
    /\ UNCHANGED <<session, stageCells, tracks, intervals, nextIntervalId,
                   pendingFinish, notified, stitchVars, analysis, resolved>>

\* analyzeScreenshot throws (geminiService.ts rethrows what the call threw):
\* catch -> alert(...), finally setIsAnalyzing(false)
AnalyzeFailed ==
    /\ calls > 0
    /\ alerted' = TRUE
    /\ isAnalyzing' = FALSE
    /\ calls' = calls - 1
    /\ UNCHANGED <<capVars, stitchVars, analysis, resolved>>

\* the X of the analysis overlay: setAnalysis(null); setIsAnalyzing(false)
CloseAnalysis ==
    /\ appState = STITCHING
    /\ isAnalyzing \/ analysis # NoAnalysis
    /\ analysis' = NoAnalysis
    /\ isAnalyzing' = FALSE
    /\ UNCHANGED <<capVars, stitchVars, calls, alerted, resolved>>

\* the editor with a published composite under analysis
AnalyzeNext ==
    \/ \E p \in passes, i \in 1..MaxStitch : ForEachOnload(p, i)
    \/ \E p \in passes : DrawImagesOnload(p)
    \/ Analyze
    \/ AnalyzeResolved
    \/ AnalyzeFailed
    \/ CloseAnalysis

SpecAnalyze == StitchInit /\ [][AnalyzeNext]_vars

\* the list operations of App on their own: handleDeleteFrame and
\* handleReorderFrame called with any id and direction.  A handler of a
\* render that is no longer current (a second click before the re-render)
\* calls them with an id that is gone or a frame that has reached the
\* boundary; ids come from generateId, so two frames may share one
EditIds == FrameIds \cup {3}

EditCollections ==
    UNION {{[i \in 1..n |-> Frame(fid[i], sz[i][1], sz[i][2])] :
                fid \in [1..n -> EditIds], sz \in [1..n -> {<<1, 2>>, <<2, 1>>}]}
           : n \in 0..MaxEdit}

\* handleDeleteFrame(id): setFrames(updater), then the editor's effect
HandleDeleteFrame(id) ==
    /\ appState = STITCHING
    /\ renders < MaxRenders
    /\ frames' = Filter(frames, id)
    /\ RenderEffect(frames')
    /\ UNCHANGED <<appState, session, stageCells, tracks, intervals,
                   nextIntervalId, pendingFinish, notified, analysisVars>>

\* handleReorderFrame(id, direction): setFrames(updater), then the effect
HandleReorderFrame(id, direction) ==
    /\ appState = STITCHING
    /\ renders < MaxRenders
    /\ frames' = Reordered(frames, id, direction)
    /\ RenderEffect(frames')
    /\ UNCHANGED <<appState, session, stageCells, tracks, intervals,
                   nextIntervalId, pendingFinish, notified, analysisVars>>

EditInit ==
    /\ appState = STITCHING
    /\ frames \in EditCollections
    /\ session = 0
    /\ stream = FALSE
    /\ mode = SINGLE
    /\ stageFrames = <<>>
    /\ isRecording = FALSE
    /\ timerInterval = 0
    /\ effectCleanup = 0
    /\ tracks = [s \in Sessions |-> "none"]
    /\ intervals = {}
    /\ nextIntervalId = 1
    /\ pendingFinish = <<>>
    /\ notified = [s \in Sessions |-> <<>>]
    /\ AnalysisInit
    /\ stitchedImage = NoImage
    /\ renders = 1
    /\ IF Len(frames) = 0
       THEN /\ canvas = Cleared(0, 0)
            /\ passes = {}
       ELSE /\ canvas = Cleared(MaxWidth(frames), TotalHeight(frames))
            /\ passes = {NewPass(1, frames)}
    /\ published = [gen |-> IF Len(frames) = 0 THEN 1 ELSE 0, frames |-> <<>>]

EditNext ==
    \/ \E id \in EditIds : HandleDeleteFrame(id)
    \/ \E id \in EditIds, direction \in {"up", "down"} : HandleReorderFrame(id, direction)

SpecEdit == EditInit /\ [][EditNext]_vars

\* the editor with the list operations called with any id and direction
\* (operations that leave the sequence as it is included) while the image
\* loads of the passes complete in any order
RepeatNext ==
    \/ \E id \in EditIds : HandleDeleteFrame(id)
    \/ \E id \in EditIds, direction \in {"up", "down"} : HandleReorderFrame(id, direction)
    \/ \E p \in passes, i \in 1..MaxStitch : ForEachOnload(p, i)
    \/ \E p \in passes : DrawImagesOnload(p)

SpecRepeat == StitchInit /\ [][RepeatNext]_vars

\* ------------------------------------------------------------------- claims
\* no render pass has an image load outstanding
Quiescent == passes = {}

\* C1: whatever the order of the image loads, the composite a render pass
\* publishes is its frames, top to bottom in the order they had when the pass
\* began, frame i starting at the sum of the heights of the frames before it.
\* (Stated for the pass over the collection the editor was mounted with, so
\* that no mutation is involved.)
C1_PublishedInOrder ==
    (renders = 1 /\ stitchedImage # NoImage) =>
        stitchedImage = Composite(published.frames)

\* C2: last mutation wins.  Once every pass has completed after a delete or a
\* swap, the published composite comes from the pass over the current
\* collection and is the render of that collection only.
C2_LastMutationWins ==
    (Quiescent /\ renders > 1 /\ frames # <<>>) =>
        /\ published.gen = renders
        /\ stitchedImage = Composite(frames)

\* C3: once every in-flight pass has completed, an empty collection has no
\* published composite.
C3_EmptyHasNoComposite ==
    (Quiescent /\ frames = <<>>) => stitchedImage = NoImage

\* C4: in Single mode one trigger on a session without frames appends one
\* frame, and the finish it schedules hands the caller exactly that frame.
C4_SingleDeliversItsFrame ==
    [][(/\ Mounted
        /\ notified[session] = <<>>
        /\ Len(pendingFinish) = 1
        /\ Len(stageFrames) = 1
        /\ appState' = STITCHING) => frames' = stageFrames]_vars

\* C5: whenever a session finishes, the collection handed to the caller is
\* the whole sequence of frames the session captured, in capture order.
C5_FinishDeliversAllFrames ==
    [][(Mounted /\ appState' = STITCHING) => frames' = stageFrames]_vars

\* C6: after a session was cancelled, no callback of that session delivers a
\* collection (no finish is notified after the cancel).
C6_NoFinishAfterCancel ==
    \A s \in Sessions : \A i \in DOMAIN notified[s], j \in DOMAIN notified[s] :
        (i < j /\ notified[s][i] = "cancel") => notified[s][j] # "finish"

\* C7: whenever a capture session no longer exists (finished, cancelled,
\* acquisition failed, or left by Back to Home), no track of a stream it
\* acquired is still live.
C7_SourceReleasedOnExit ==
    \A s \in Sessions : ~(s = session /\ Mounted) => tracks[s] # "live"

\* C8: once the video source has ended externally, the session is no longer
\* Active and no periodic capture timer is running.
C8_EndedLeavesActive ==
    (Mounted /\ tracks[session] = "ended") => (~stream /\ intervals = {})

\* C9: in Timer-long mode, when Recording has been On for 5 time units, the
\* collection has grown by exactly 2 or 3 frames since Recording went On.
C9_FiveUnitsTwoOrThreeFrames ==
    \A iv \in intervals :
        (mode = LONG_TIMER /\ isRecording /\ iv.age = 5) =>
            Len(stageFrames) - iv.base \in {2, 3}

\* C9 happens: Recording has been On for 5 units and two ticks have landed
C9_Witness ==
    \E iv \in intervals :
        /\ mode = LONG_TIMER /\ isRecording /\ iv.age = 5
        /\ Len(stageFrames) = iv.base + 2

\* C10: within a session, a mode switch and Recording going Off leave the
\* captured frames as they are; while Recording is Off no interval is alive,
\* and in Timer-long mode with Recording Off the collection does not grow.
C10_PauseAndSwitchKeepFrames ==
    /\ [][(Mounted /\ Mounted') =>
            /\ (mode' # mode => stageFrames' = stageFrames)
            /\ ((isRecording /\ ~isRecording') => stageFrames' = stageFrames)
            /\ ((~isRecording /\ ~isRecording' /\ mode = LONG_TIMER /\ mode' = LONG_TIMER)
                    => stageFrames' = stageFrames)]_vars
    /\ [](~isRecording => intervals = {})

\* C10 happens: a timer was started, Recording went Off again, frames are held
C10_Witness ==
    /\ Mounted /\ mode = LONG_TIMER /\ ~isRecording
    /\ timerInterval # 0
    /\ stageFrames # <<>>

\* C11: in Manual-long and Timer-long mode a session that holds no frame
\* cannot finish: no step takes it to the stitching state.
C11_NoFinishWithoutFrames ==
    [][(Mounted /\ mode \in {LONG_MANUAL, LONG_TIMER} /\ stageFrames = <<>>)
            => appState' # STITCHING]_vars

\* C11 happens: a long mode shows its controls and the collection is empty
C11_Witness ==
    VideoRef /\ mode \in {LONG_MANUAL, LONG_TIMER} /\ stageFrames = <<>>

\* C12: when the acquisition of the video source has failed, the session was
\* cancelled and nothing else: its cancel callback ran once, it is not (and
\* was never) Active, it holds no frame and delivered none.
C12_AcquireFailureCancels ==
    \A s \in Sessions :
        tracks[s] = "denied" =>
            /\ notified[s] = <<"cancel">>
            /\ ~(s = session /\ Mounted)
            /\ ~stream
            /\ stageFrames = <<>>
            /\ frames = <<>>

\* C12 happens: getDisplayMedia was rejected while the session was mounted
C12_Witness ==
    \E s \in Sessions :
        tracks[s] = "denied" /\ appState = IDLE /\ notified[s] # <<>>

\* the sum of the heights of the frames of fs before position i
RECURSIVE HeightsBefore(_, _)
HeightsBefore(fs, i) ==
    IF i <= 1 THEN 0 ELSE HeightsBefore(fs, i - 1) + fs[i - 1].height

\* C13: the composite a pass publishes over an unmutated, non-empty
\* collection is as wide as the widest frame and as high as the sum of the
\* frame heights.
C13_CompositeDimensions ==
    stitchedImage # NoImage =>
        /\ \A i \in 1..Len(frames) : frames[i].width <= stitchedImage.width
        /\ \E i \in 1..Len(frames) : frames[i].width = stitchedImage.width
        /\ stitchedImage.height = HeightsBefore(frames, Len(frames) + 1)

\* C13 happens: a pass over two frames of different widths has published
C13_Witness ==
    /\ stitchedImage # NoImage
    /\ Len(frames) = 2
    /\ frames[1].width < frames[2].width

\* frames [A: 200 x 100, B: 300 x 150] in the units of RenderSizes
Scenario == <<Frame(1, 2, 2), Frame(2, 3, 3)>>

\* C14: a draw of the awaited loop puts its frame at x = (canvas width -
\* frame width) / 2 and y = the sum of the heights of the frames before it:
\* right after the draw every pixel of the frame is on the canvas there.  For
\* [A: 200 x 100, B: 300 x 150] the canvas is 300 x 250, A has its corner at
\* (50, 0) and B at (0, 100).
C14_LoopPlacement ==
    [][\A p \in passes : DrawImagesOnload(p) =>
            LET f == p.frames[p.next]
                x == canvas.width - f.width
                y == HeightsBefore(p.frames, p.next)
            IN /\ \A r \in 0..(f.height - 1), c \in 0..(2 * f.width - 1) :
                      canvas'.px[<<y + r, x + c>>] = <<f.id, r, c>>
               /\ p.frames = Scenario =>
                      /\ canvas'.width = 3 /\ canvas'.height = 5
                      /\ p.next = 1 => canvas'.px[<<0, 1>>] = <<1, 0, 0>>
                      /\ p.next = 2 => canvas'.px[<<2, 0>>] = <<2, 0, 0>>]_vars

\* C14 happens: the pass over [A: 200 x 100, B: 300 x 150] has drawn both
C14_Witness ==
    frames = Scenario /\ stitchedImage # NoImage

\* a frame of fs cannot be decoded
DecodeFails(fs) == \E i \in 1..Len(fs) : ~Decodes(fs[i])

\* C15: a pass in which a frame's decode fails publishes nothing.  Every step
\* that publishes is the empty-collection branch or the end of a pass all of
\* whose frames decoded, so a failing pass leaves the composite published
\* before it in place and no image of a prefix of its frames is published.
C15_FailedPassPublishesNothing ==
    [][published' # published =>
            /\ ~DecodeFails(published'.frames)
            /\ published'.frames = <<>> => stitchedImage' = NoImage]_vars

\* C15 happens: a pass is stopped at a frame that cannot be decoded while a
\* composite is published
C15_Witness ==
    /\ stitchedImage # NoImage
    /\ \E p \in passes : p.next <= Len(p.frames) /\ ~Decodes(p.frames[p.next])

\* C16: a render pass never stays pending on a frame that cannot be decoded:
\* while the awaited loop of a pass has frames left, its next image load can
\* complete (or the pass would abort, which the code has no step for).
C16_PendingPassProgresses ==
    \A p \in passes : p.next <= Len(p.frames) => ENABLED DrawImagesOnload(p)

\* the FrameCollection invariant: no two frames of fs share an id
NoDuplicateIds(fs) ==
    \A i \in 1..Len(fs), j \in 1..Len(fs) : fs[i].id = fs[j].id => i = j

\* fs with its element at position k left out
Without(fs, k) == [i \in 1..(Len(fs) - 1) |-> IF i < k THEN fs[i] ELSE fs[i + 1]]

\* C17: on a collection without duplicate ids, delete(id) of a present id
\* removes that frame only, the other frames keep their order and the total
\* height shrinks by the height of the removed frame; delete of an absent id
\* changes nothing.
C17_DeleteRemovesOneFrame ==
    [][\A id \in EditIds : (NoDuplicateIds(frames) /\ HandleDeleteFrame(id)) =>
            IF \E k \in 1..Len(frames) : frames[k].id = id
            THEN LET k == CHOOSE k \in 1..Len(frames) : frames[k].id = id
                 IN /\ frames' = Without(frames, k)
                    /\ HeightsBefore(frames', Len(frames') + 1)
                          = HeightsBefore(frames, Len(frames) + 1) - frames[k].height
            ELSE frames' = frames]_vars

\* C17 happens: the middle frame of three was deleted
C17_Witness ==
    /\ renders = 2
    /\ frames = <<Frame(1, 1, 2), Frame(3, 2, 1)>>
    /\ \E p \in passes :
          p.gen = 1 /\ p.frames = <<Frame(1, 1, 2), Frame(2, 1, 2), Frame(3, 2, 1)>>

\* fs with its elements at positions i and j exchanged
Exchanged(fs, i, j) ==
    [k \in 1..Len(fs) |-> IF k = i THEN fs[j] ELSE IF k = j THEN fs[i] ELSE fs[k]]

\* C18: on a collection without duplicate ids, swap(id, direction) exchanges
\* the frame with its neighbour in that direction and moves nothing else; it
\* changes nothing when the frame is first and the direction up, last and the
\* direction down, or the id absent.  swap(id, up) then swap(id, down)
\* restores the sequence when the frame was not first.
C18_SwapExchangesNeighbours ==
    /\ [][\A id \in EditIds, direction \in {"up", "down"} :
            (NoDuplicateIds(frames) /\ HandleReorderFrame(id, direction)) =>
                IF \E k \in 1..Len(frames) : frames[k].id = id
                THEN LET k == CHOOSE k \in 1..Len(frames) : frames[k].id = id
                     IN /\ (direction = "up" /\ k = 1) => frames' = frames
                        /\ (direction = "down" /\ k = Len(frames)) => frames' = frames
                        /\ (direction = "up" /\ k > 1)
                              => frames' = Exchanged(frames, k, k - 1)
                        /\ (direction = "down" /\ k < Len(frames))
                              => frames' = Exchanged(frames, k, k + 1)
                ELSE frames' = frames]_vars
    /\ [](NoDuplicateIds(frames) =>
            \A k \in 2..Len(frames) :
                Reordered(Reordered(frames, frames[k].id, "up"), frames[k].id, "down")
                    = frames)

\* C18 happens: the last frame of three was moved up
C18_Witness ==
    /\ renders = 2
    /\ frames = <<Frame(1, 1, 2), Frame(3, 2, 1), Frame(2, 1, 2)>>
    /\ \E p \in passes :
          p.gen = 1 /\ p.frames = <<Frame(1, 1, 2), Frame(2, 1, 2), Frame(3, 2, 1)>>

\* C19: rendering an unchanged collection again publishes an identical
\* composite: when a pass publishes over the same sequence of frames as the
\* pass that published before it, the published image does not change.
C19_RerenderIdentical ==
    [][(/\ published' # published
        /\ stitchedImage # NoImage
        /\ published'.frames = published.frames) => stitchedImage' = stitchedImage]_vars

\* C20: a failed analysis call leaves the frame collection, the application
\* state and the editor as they are, stores no analysis result and resets the
\* analysing flag; no result is stored unless a call returned one.
C20_AnalyzeFailureKeepsSession ==
    /\ [][AnalyzeFailed =>
            /\ frames' = frames
            /\ appState' = appState
            /\ stitchedImage' = stitchedImage
            /\ analysis' = analysis
            /\ isAnalyzing' = FALSE]_vars
    /\ [](~resolved => analysis = NoAnalysis)

\* C20 happens: the only call made so far has failed
C20_Witness ==
    /\ alerted /\ ~resolved /\ calls = 0
    /\ appState = STITCHING /\ frames # <<>>
    /\ ~isAnalyzing /\ analysis = NoAnalysis

\* C21: Recording is On only while the mode is Timer-long, and a step that
\* starts an interval is a start action (Recording goes from Off to On).
C21_RecordingOnlyInTimerMode ==
    /\ [](isRecording => mode = LONG_TIMER)
    /\ [][nextIntervalId' # nextIntervalId => (~isRecording /\ isRecording')]_vars

\* C22: every frame a capture appended is at least 1 x 1: a trigger issued
\* while the video reports no dimensions appends nothing.
C22_FramesHaveSize ==
    \A i \in 1..Len(stageFrames) : stageFrames[i].width >= 1 /\ stageFrames[i].height >= 1

\* C23: no two frames of a collection share an id, in the session that
\* captures them and in the collection handed to the editor.
C23_IdsAreUnique ==
    NoDuplicateIds(stageFrames) /\ NoDuplicateIds(frames)

\* C24: a capture session notifies its caller at most once: the finish and
\* the cancel callback are together invoked no more than once per session.
C24_NotifiedAtMostOnce ==
    \A s \in Sessions : Len(notified[s]) <= 1

====
